---- MODULE Spec2Model ----
(***************************************************************************)
(* A model of energyderivatives' two pricing engines:                      *)
(*   - CRRBinomialTreeOption (binomial_tree_options/__init__.py): the      *)
(*     in-place backward induction of _calc_price / _euro / _amer;         *)
(*   - MonteCarloOption (monte_carlo_options/__init__.py): __init__,       *)
(*     call/put and the loop of _sim_mc.                                   *)
(* numpy float64 values are modelled as exact rationals extended with the  *)
(* three IEEE specials (nan, +inf, -inf), since the code's behaviour on    *)
(* division by zero and on non-finite payoffs is what several properties   *)
(* are about.                                                              *)
(***************************************************************************)
EXTENDS Integers, Sequences, FiniteSets, TLC

VARIABLES lat, mc, mc2

vars == <<lat, mc, mc2>>

----------------------------------------------------------------------------
(* float64 arithmetic: a value is [k, n, d]; k = "fin" is the rational n/d *)
(* in lowest terms with d > 0; the specials carry n = 0, d = 1.            *)

RECURSIVE Gcd(_, _)
Gcd(a, b) == IF b = 0 THEN a ELSE Gcd(b, a % b)

AbsI(a) == IF a < 0 THEN -a ELSE a

Fin(n, d) ==
    LET s == IF d < 0 THEN -1 ELSE 1
        g == Gcd(AbsI(n), AbsI(d))
    IN  [k |-> "fin", n |-> (s * n) \div g, d |-> (s * d) \div g]

NaN == [k |-> "nan", n |-> 0, d |-> 1]
PInf == [k |-> "pinf", n |-> 0, d |-> 1]
NInf == [k |-> "ninf", n |-> 0, d |-> 1]
Zero == Fin(0, 1)
One == Fin(1, 1)

IsFin(x) == x.k = "fin"
IsNaN(x) == x.k = "nan"
IsInf(x) == x.k \in {"pinf", "ninf"}

\* the sign of a value: -1, 0, 1 (0 for nan)
Sgn(x) ==
    CASE x.k = "pinf" -> 1
      [] x.k = "ninf" -> -1
      [] x.k = "nan" -> 0
      [] OTHER -> IF x.n > 0 THEN 1 ELSE IF x.n < 0 THEN -1 ELSE 0

InfOfSign(s) == IF s > 0 THEN PInf ELSE IF s < 0 THEN NInf ELSE NaN

QNeg(x) ==
    CASE x.k = "pinf" -> NInf
      [] x.k = "ninf" -> PInf
      [] x.k = "nan" -> NaN
      [] OTHER -> Fin(-x.n, x.d)

QAdd(x, y) ==
    IF IsNaN(x) \/ IsNaN(y) THEN NaN
    ELSE IF IsInf(x) /\ IsInf(y) THEN (IF x.k = y.k THEN x ELSE NaN)
    ELSE IF IsInf(x) THEN x
    ELSE IF IsInf(y) THEN y
    ELSE LET c == Gcd(x.d, y.d)
         IN  Fin(x.n * (y.d \div c) + y.n * (x.d \div c), (x.d \div c) * y.d)

QSub(x, y) == QAdd(x, QNeg(y))

QMul(x, y) ==
    IF IsNaN(x) \/ IsNaN(y) THEN NaN
    ELSE IF IsInf(x) \/ IsInf(y) THEN InfOfSign(Sgn(x) * Sgn(y))
    ELSE Fin(x.n * y.n, x.d * y.d)

\* numpy float64 division: x/0 is +-inf (nan for 0/0) with a RuntimeWarning,
\* never an exception
QDiv(x, y) ==
    IF IsNaN(x) \/ IsNaN(y) THEN NaN
    ELSE IF IsInf(x) /\ IsInf(y) THEN NaN
    ELSE IF IsInf(x) THEN InfOfSign(Sgn(x) * (IF Sgn(y) < 0 THEN -1 ELSE 1))
    ELSE IF IsInf(y) THEN Zero
    ELSE IF y.n = 0 THEN InfOfSign(Sgn(x))
    ELSE Fin(x.n * y.d, x.d * y.n)

\* x < y; every comparison with nan is false
QLt(x, y) ==
    IF IsNaN(x) \/ IsNaN(y) THEN FALSE
    ELSE IF x.k = "pinf" \/ y.k = "ninf" THEN FALSE
    ELSE IF x.k = "ninf" \/ y.k = "pinf" THEN TRUE
    ELSE LET c == Gcd(x.d, y.d)
         IN  x.n * (y.d \div c) < y.n * (x.d \div c)

QLe(x, y) == (~IsNaN(x) /\ ~IsNaN(y)) /\ ~QLt(y, x)

\* x == y of floats: nan equals nothing, itself included
QEq(x, y) == ~IsNaN(x) /\ ~IsNaN(y) /\ x = y

QAbs(x) == IF Sgn(x) < 0 THEN QNeg(x) ELSE x

RECURSIVE QPow(_, _)
QPow(x, e) == IF e = 0 THEN One ELSE QMul(x, QPow(x, e - 1))

\* Python's builtin max(a, b): b only when b > a, so max(a, nan) is a
PyMax(a, b) == IF QLt(a, b) THEN b ELSE a

----------------------------------------------------------------------------
(* CRRBinomialTreeOption                                                   *)

\* bounds of the lattice inputs
MaxN == 3

\* S and K (levels and strikes)
SVals == {1, 2, 3}
KVals == {2}
\* u = exp(sigma * sqrt(dt)): 1 is sigma = 0, the others sigma > 0
UVals == {Fin(1, 1), Fin(2, 1)}
\* g = exp(b * dt), any positive real: with u = 2 these give the
\* probabilities p = -1/6, 0, 1/3, 1/2, 1, 3/2
GVals == {Fin(1, 4), Fin(1, 2), Fin(1, 1), Fin(5, 4), Fin(2, 1), Fin(11, 4)}
\* Df = exp(-r * dt), any positive real
DfVals == {Fin(1, 1), Fin(1, 2)}
NVals == -1 .. MaxN
Types == {"european", "american"}

EmptyArr == [x \in {} |-> Zero]

\* line 197-200: the terminal payoffs, (|x| + x) / 2 of
\* x = z * (S * u ** i * d ** (n - i) - K) for i = 0..n
Terminal(S, K, u, d, n, z) ==
    [x \in 0 .. n |->
        LET v == QMul(Fin(z, 1),
                      QSub(QMul(QMul(Fin(S, 1), QPow(u, x)), QPow(d, n - x)),
                           Fin(K, 1)))
        IN  QDiv(QAdd(QAbs(v), v), Fin(2, 1))]

\* the exercise value of node (j, i) as _amer computes it
Exercise(S, K, u, d, z, j, i) ==
    QMul(Fin(z, 1),
         QSub(QMul(QMul(Fin(S, 1), QPow(u, i)), QPow(d, AbsI(i - j))),
              Fin(K, 1)))

\* the discounted expectation both loops compute from entries i and i + 1
Continuation(OV, i, p, Df) ==
    QMul(QAdd(QMul(p, OV[i + 1]), QMul(QSub(One, p), OV[i])), Df)

\* a slip of the index: the update is written one entry to the right
EuroNodeWritesNext(OV, i, p, Df) ==
    [OV EXCEPT ![i + 1] = Continuation(OV, i, p, Df)]

\* _euro's loop body: OptionValue[i] = (p * OV[i+1] + (1-p) * OV[i]) * Df
EuroNode(OV, i, p, Df) == [OV EXCEPT ![i] = Continuation(OV, i, p, Df)]

\* min where the code has max
AmerNodeMin(OV, i, j, p, Df, S, K, u, d, z) ==
    [OV EXCEPT ![i] =
        LET e == Exercise(S, K, u, d, z, j, i)
            c == Continuation(OV, i, p, Df)
        IN  IF QLt(c, e) THEN c ELSE e]

\* the comparison with the exercise value left out
AmerNodeNoExercise(OV, i, j, p, Df, S, K, u, d, z) ==
    [OV EXCEPT ![i] = Continuation(OV, i, p, Df)]

\* _amer's loop body: OptionValue[i] = max(exercise, continuation)
AmerNode(OV, i, j, p, Df, S, K, u, d, z) ==
    [OV EXCEPT ![i] = PyMax(Exercise(S, K, u, d, z, j, i),
                            Continuation(OV, i, p, Df))]

\* one node update of the loop selected by type
NodeOf(l, OV, i, j) ==
    IF l.type = "european"
    THEN EuroNode(OV, i, l.p, l.Df)
    ELSE AmerNode(OV, i, j, l.p, l.Df, l.S, l.K, l.u, l.d, l.z)

\* the inner loop, for i in arange(0, j + 1): nodes i .. j in ascending order
RECURSIVE InnerFrom(_, _, _, _)
InnerFrom(l, OV, i, j) ==
    IF i > j THEN OV ELSE InnerFrom(l, NodeOf(l, OV, i, j), i + 1, j)

\* the outer loop, for j in arange(0, n)[::-1]: steps j, j-1, .., 0
RECURSIVE OuterFrom(_, _, _)
OuterFrom(l, OV, j) ==
    IF j < 0 THEN OV ELSE OuterFrom(l, InnerFrom(l, OV, 0, j), j - 1)

\* lines 191-195: d, p from u and g; p divides by u - d
CalcD(u) == QDiv(One, u)
CalcP(u, g) == QDiv(QSub(g, CalcD(u)), QSub(u, CalcD(u)))

\* _calc_price as a function of the inputs, for n >= 1
PriceOf(l, type) ==
    LET d == CalcD(l.u)
        p == CalcP(l.u, l.g)
        ll == [l EXCEPT !.d = d, !.p = p, !.type = type]
    IN  OuterFrom(ll, Terminal(l.S, l.K, l.u, d, l.n, l.z), l.n - 1)[0]

LatOff == [pc |-> "off"]

LatInit ==
    lat \in [pc : {"new"}, S : SVals, K : KVals, u : UVals, g : GVals,
             Df : DfVals, n : NVals, z : {1, -1}, type : Types,
             d : {Zero}, p : {Zero}, OV : {EmptyArr}, start : {EmptyArr},
             j : {0}, i : {0}, upd : {{}}, ordered : {TRUE}, ret : {NaN},
             err : {"none"}]

\* _calc_price up to the call of _euro / _amer (lines 191-200). dt = t / n
\* raises ZeroDivisionError for n = 0 (t is a Python float); for n < 0 the
\* arrays are empty, neither loop runs and [0] raises IndexError.
CalcSetup(l) ==
    IF l.n = 0 THEN [l EXCEPT !.pc = "error", !.err = "ZeroDivisionError"]
    ELSE IF l.n < 0 THEN [l EXCEPT !.pc = "error", !.err = "IndexError"]
    ELSE LET d == CalcD(l.u)
             OV == Terminal(l.S, l.K, l.u, d, l.n, l.z)
         IN  [l EXCEPT !.pc = "loop", !.d = d, !.p = CalcP(l.u, l.g),
                       !.OV = OV, !.start = OV, !.j = l.n - 1, !.i = 0]

\* the update of node i in step j, and the loop bookkeeping after it.
\* start (the array when step j began), upd (the nodes step j has updated)
\* and ordered (no node was yet updated after its right neighbour) record
\* the history of the step.
NodeStep(l, i) ==
    LET OV == NodeOf(l, l.OV, i, l.j)
        upd == l.upd \cup {i}
        ord == l.ordered /\ (i + 1) \notin l.upd
    IN  IF upd = 0 .. l.j
        THEN [l EXCEPT !.OV = OV, !.start = OV, !.upd = {}, !.i = 0,
                       !.j = l.j - 1, !.ordered = ord,
                       !.pc = IF l.j = 0 THEN "return" ELSE "loop"]
        ELSE [l EXCEPT !.OV = OV, !.upd = upd, !.i = i + 1, !.ordered = ord]

\* lines 203 / 215: the price is entry 0
Return(l) == [l EXCEPT !.pc = "done", !.ret = l.OV[0]]

LatSetup ==
    /\ lat.pc = "new"
    /\ lat' = CalcSetup(lat)
    /\ UNCHANGED <<mc, mc2>>

\* the inner loop run from j down to 0
LatNodeDescending ==
    /\ lat.pc = "loop"
    /\ lat' = NodeStep(lat, lat.j - Cardinality(lat.upd))
    /\ UNCHANGED <<mc, mc2>>

\* the code's order: i ascends from 0 to j
LatNode ==
    /\ lat.pc = "loop"
    /\ lat' = NodeStep(lat, lat.i)
    /\ UNCHANGED <<mc, mc2>>

\* the inner loop's updates taken in any order, one node at a time, with
\* the barrier between steps kept: the parallel schedule of the inner loop
LatNodeAnyOrder ==
    /\ lat.pc = "loop"
    /\ \E i \in (0 .. lat.j) \ lat.upd : lat' = NodeStep(lat, i)
    /\ UNCHANGED <<mc, mc2>>

LatReturn ==
    /\ lat.pc = "return"
    /\ lat' = Return(lat)
    /\ UNCHANGED <<mc, mc2>>

McOff == [pc |-> "off"]

InitLattice == LatInit /\ mc = McOff /\ mc2 = McOff

NextLattice == LatSetup \/ LatNode \/ LatReturn

SpecLattice == InitLattice /\ [][NextLattice]_vars

NextLatticeAnyOrder == LatSetup \/ LatNodeAnyOrder \/ LatReturn

SpecLatticeAnyOrder == InitLattice /\ [][NextLatticeAnyOrder]_vars

----------------------------------------------------------------------------
(* MonteCarloOption                                                        *)

\* bounds of the Monte Carlo inputs
MaxLoops == 2
MaxPaths == 2
MaxLen == 1
\* np.sqrt is exact on squares of rationals and otherwise rounded down to a
\* multiple of 1 / SqrtDen
SqrtDen == 8

\* the values an innovation takes, and the payoffs of one path: the first
\* path's payoff ranges over finite and non-finite values, the others pay 0
InnoVals == {Fin(-1, 1), Fin(2, 1)}
PayoffVals == {Zero, Fin(2, 1), Fin(4, 1), PInf, NInf, NaN}

LoopVals == -1 .. MaxLoops
PathVals == 0 .. MaxPaths
LenVals == 0 .. MaxLen

\* arrays of shape (P, L): a sequence of P rows of L values
Batches(P, L) ==
    { [r \in 1 .. P |-> [c \in 1 .. L |-> IF r = 1 THEN a ELSE b]] :
        a \in InnoVals, b \in InnoVals }

\* arrays of shape (P,)
PayoffVecs(P) ==
    { [x \in 1 .. P |-> IF x = 1 THEN v ELSE Zero] : v \in PayoffVals }

None == [some |-> FALSE, val |-> <<>>]
Some(v) == [some |-> TRUE, val |-> v]

RECURSIVE SumSeq(_)
SumSeq(v) == IF v = <<>> THEN Zero ELSE QAdd(v[1], SumSeq(Tail(v)))

RECURSIVE Flatten(_)
Flatten(b) == IF b = <<>> THEN <<>> ELSE b[1] \o Flatten(Tail(b))

\* np.mean of the flattened array; nan for an empty one
Mean(v) == IF v = <<>> THEN NaN ELSE QDiv(SumSeq(v), Fin(Len(v), 1))

ISqrt(k) == CHOOSE r \in 0 .. k : r * r <= k /\ (r + 1) * (r + 1) > k

IsSquare(k) == ISqrt(k) * ISqrt(k) = k

SqrtQ(x) ==
    IF ~IsFin(x) THEN (IF x.k = "pinf" THEN PInf ELSE NaN)
    ELSE IF x.n < 0 THEN NaN
    ELSE IF IsSquare(x.n) /\ IsSquare(x.d) THEN Fin(ISqrt(x.n), ISqrt(x.d))
    ELSE Fin(ISqrt((x.n * SqrtDen * SqrtDen) \div x.d), SqrtDen)

\* np.std: the root of the mean squared deviation from the mean
Std(v) ==
    LET m == Mean(v)
    IN  SqrtQ(Mean([x \in 1 .. Len(v) |->
                       QMul(QSub(v[x], m), QSub(v[x], m))]))

\* line 298: np.concatenate((eps, -eps)), along the paths axis
Antithetic(b) ==
    b \o [r \in 1 .. Len(b) |-> [c \in 1 .. Len(b[r]) |-> QNeg(b[r][c])]]

\* line 301: (eps - np.mean(eps)) / np.std(eps)
Standardize(b) ==
    LET m == Mean(Flatten(b))
        sd == Std(Flatten(b))
    IN  [r \in 1 .. Len(b) |->
            [c \in 1 .. Len(b[r]) |-> QDiv(QSub(b[r][c], m), sd)]]

\* lines 297-301
Transform(cfg, b) ==
    LET a == IF cfg.antithetic THEN Antithetic(b) ELSE b
    IN  IF cfg.standardization THEN Standardize(a) ELSE a

\* Innovations.__init__(mc_paths, path_length, eps): the object keeps them
NewInnovation(mc_paths, path_length, eps) ==
    [made |-> TRUE, mc_paths |-> mc_paths, path_length |-> path_length,
     eps |-> eps]

NoInnovation ==
    [made |-> FALSE, mc_paths |-> 0, path_length |-> 0, eps |-> None]

\* InnovationSource.sample_innovation(): the pre-supplied batch when the
\* object holds one, else a fresh batch of shape (mc_paths, path_length)
SampleInnovation(inn, fresh) == IF inn.eps.some THEN inn.eps.val ELSE fresh

\* Path.__init__(epsilon, sigma, dt, b): the object keeps the batch
NewPath(eps) == [made |-> TRUE, epsilon |-> eps]
NoPath == [made |-> FALSE, epsilon |-> <<>>]

NoRet == [kind |-> "none", arr |-> <<>>, eps |-> <<>>, path |-> NoPath,
          payoff |-> <<>>]

Configs ==
    [mc_loops : LoopVals, mc_paths : PathVals, path_length : LenVals,
     Innovation : BOOLEAN, Path : BOOLEAN, Payoff : BOOLEAN,
     trace : BOOLEAN, antithetic : BOOLEAN, standardization : BOOLEAN,
     eps : {None}]

\* the override batches of a configuration's shape
WithEps(c) ==
    {c} \cup { [c EXCEPT !.eps = Some(b)] :
                  b \in Batches(c.mc_paths, c.path_length) }

\* at most one capability is left out
OneMissing(c) ==
    Cardinality({x \in {"Innovation", "Path", "Payoff"} : ~c[x]}) <= 1

NewEngine(c) ==
    [pc |-> "new", cfg |-> c, inn |-> NoInnovation, side |-> "none",
     i |-> 0, drawn |-> <<>>, eps |-> <<>>, path |-> NoPath,
     payoff |-> <<>>, iteration |-> <<>>, calls |-> <<>>, warns |-> <<>>,
     out |-> <<>>, ret |-> NoRet, err |-> "none"]

\* __init__ that does not hand eps to the innovation source
ConstructWithoutEps(m) ==
    IF m.cfg.path_length = 0
    THEN [m EXCEPT !.pc = "error", !.err = "ZeroDivisionError"]
    ELSE IF ~m.cfg.Innovation
    THEN [m EXCEPT !.pc = "error", !.err = "TypeError"]
    ELSE [m EXCEPT !.pc = "idle",
                   !.inn = NewInnovation(m.cfg.mc_paths, m.cfg.path_length,
                                         None)]

\* __init__ (lines 208-225): dt = t / path_length raises ZeroDivisionError
\* for path_length = 0; Innovation(mc_paths, path_length, eps) raises
\* TypeError when Innovation is None; nothing else is looked at
Construct(m) ==
    IF m.cfg.path_length = 0
    THEN [m EXCEPT !.pc = "error", !.err = "ZeroDivisionError"]
    ELSE IF ~m.cfg.Innovation
    THEN [m EXCEPT !.pc = "error", !.err = "TypeError"]
    ELSE [m EXCEPT !.pc = "idle",
                   !.inn = NewInnovation(m.cfg.mc_paths, m.cfg.path_length,
                                         m.cfg.eps)]

\* call() / put() and _sim_mc up to the loop (lines 280-287): the trace
\* header, then np.zeros(mc_loops), a ValueError for mc_loops < 0
Call(m, side) ==
    LET out == IF m.cfg.trace THEN m.out \o <<"header">> ELSE m.out
    IN  IF m.cfg.mc_loops < 0
        THEN [m EXCEPT !.pc = "error", !.err = "ValueError", !.out = out,
                       !.side = side]
        ELSE [m EXCEPT !.pc = IF m.cfg.mc_loops = 0 THEN "finish" ELSE "sample",
                       !.side = side, !.out = out, !.i = 0,
                       !.iteration = [x \in 1 .. m.cfg.mc_loops |-> Zero]]

\* a draw whose antithetic expansion is written back into the batch the
\* innovation source holds
DrawGrowsSource(m, fresh) ==
    LET b == SampleInnovation(m.inn, fresh)
    IN  [m EXCEPT !.pc = "path", !.drawn = b, !.eps = Transform(m.cfg, b),
                  !.inn.eps = IF m.inn.eps.some /\ m.cfg.antithetic
                              THEN Some(Antithetic(b)) ELSE m.inn.eps,
                  !.calls = Append(m.calls,
                                   [op |-> "sample", i |-> m.i, vec |-> <<>>])]

\* lines 294-301: the draw of loop i and its transforms
Draw(m, fresh) ==
    LET b == SampleInnovation(m.inn, fresh)
    IN  [m EXCEPT !.pc = "path", !.drawn = b, !.eps = Transform(m.cfg, b),
                  !.calls = Append(m.calls,
                                   [op |-> "sample", i |-> m.i, vec |-> <<>>])]

\* line 306: self._Path(eps, sigma, dt, b); TypeError when Path is None
BuildPath(m) ==
    IF ~m.cfg.Path
    THEN [m EXCEPT !.pc = "error", !.err = "TypeError"]
    ELSE [m EXCEPT !.pc = "payoff", !.path = NewPath(m.eps),
                   !.calls = Append(m.calls,
                                    [op |-> "path", i |-> m.i, vec |-> <<>>])]

\* a report that keeps the running mean in the array it reports on
TracePrintStoresRunningMean(m, i) ==
    IF m.cfg.trace
    THEN [m EXCEPT !.out = Append(m.out,
              <<i, m.iteration[i + 1],
                QDiv(SumSeq(m.iteration), Fin(i + 1, 1))>>),
                   !.iteration[i + 1] =
                       QDiv(SumSeq(m.iteration), Fin(i + 1, 1))]
    ELSE m

\* lines 332-340: the report of loop i; iteration is read, not written
TracePrint(m, i) ==
    IF m.cfg.trace
    THEN [m EXCEPT !.out = Append(m.out,
              <<i, m.iteration[i + 1],
                QDiv(SumSeq(m.iteration), Fin(i + 1, 1))>>)]
    ELSE m

\* the estimate stored at index 0 whatever the loop
StoreAtFirstIndex(m, tmp) ==
    LET st == [m EXCEPT !.iteration[1] = tmp]
    IN  [st EXCEPT !.i = m.i + 1, !.drawn = <<>>, !.eps = <<>>,
                   !.path = NoPath, !.payoff = <<>>,
                   !.pc = IF m.i + 1 < m.cfg.mc_loops THEN "sample"
                          ELSE "finish"]

\* a loop that steps its index by two
StoreSkipsLoop(m, tmp) ==
    LET st == [m EXCEPT !.iteration[m.i + 1] = tmp]
    IN  [st EXCEPT !.i = m.i + 2, !.drawn = <<>>, !.eps = <<>>,
                   !.path = NoPath, !.payoff = <<>>,
                   !.pc = IF m.i + 2 < m.cfg.mc_loops THEN "sample"
                          ELSE "finish"]

\* line 330 and the end of the loop body: the estimate is stored at index i
\* and the loop goes on to i + 1; the loop's batch, path and payoff are
\* dead from here on
Store(m, tmp) ==
    LET st == [m EXCEPT !.iteration[m.i + 1] = tmp]
        tr == TracePrint(st, m.i)
    IN  [tr EXCEPT !.i = m.i + 1, !.drawn = <<>>, !.eps = <<>>,
                   !.path = NoPath, !.payoff = <<>>,
                   !.pc = IF m.i + 1 < m.cfg.mc_loops THEN "sample"
                          ELSE "finish"]

\* lines 324-328: the test for divergence
Diverges(tmp) == QEq(tmp, PInf)

\* lines 313-340: the payoff of loop i (TypeError when Payoff is None), its
\* mean, the divergence return, else the store
Payoff(m, vec) ==
    IF ~m.cfg.Payoff
    THEN [m EXCEPT !.pc = "error", !.err = "TypeError"]
    ELSE LET c == [m EXCEPT !.payoff = vec,
                            !.calls = Append(m.calls,
                                [op |-> m.side, i |-> m.i, vec |-> vec])]
             tmp == Mean(vec)
         IN  IF Diverges(tmp)
             THEN [c EXCEPT !.pc = "diverged",
                            !.warns = Append(c.warns, m.i),
                            !.ret = [kind |-> "bundle", arr |-> <<>>,
                                     eps |-> c.eps, path |-> c.path,
                                     payoff |-> vec]]
             ELSE Store(c, tmp)

\* lines 341-343: print("\n") and return iteration
Finish(m) ==
    [m EXCEPT !.pc = "done", !.out = Append(m.out, "newline"),
              !.ret = [NoRet EXCEPT !.kind = "array", !.arr = m.iteration]]

\* the number of paths of the array handed to the payoff
Rows(m) == Len(m.path.epsilon)

McConstruct ==
    /\ mc.pc = "new"
    /\ mc' = Construct(mc)
    /\ UNCHANGED <<lat, mc2>>

McCall ==
    /\ mc.pc = "idle"
    /\ \E side \in {"call", "put"} : mc' = Call(mc, side)
    /\ UNCHANGED <<lat, mc2>>

McDraw ==
    /\ mc.pc = "sample"
    /\ \E fresh \in Batches(mc.inn.mc_paths, mc.inn.path_length) :
           mc' = Draw(mc, fresh)
    /\ UNCHANGED <<lat, mc2>>

McBuildPath ==
    /\ mc.pc = "path"
    /\ mc' = BuildPath(mc)
    /\ UNCHANGED <<lat, mc2>>

McPayoff ==
    /\ mc.pc = "payoff"
    /\ \E vec \in PayoffVecs(Rows(mc)) : mc' = Payoff(mc, vec)
    /\ UNCHANGED <<lat, mc2>>

McFinish ==
    /\ mc.pc = "finish"
    /\ mc' = Finish(mc)
    /\ UNCHANGED <<lat, mc2>>

InitMC ==
    /\ \E c \in {x \in Configs : OneMissing(x)} :
           \E ce \in WithEps(c) : mc = NewEngine(ce)
    /\ lat = LatOff
    /\ mc2 = McOff

NextMC ==
    McConstruct \/ McCall \/ McDraw \/ McBuildPath \/ McPayoff \/ McFinish

SpecMC == InitMC /\ [][NextMC]_vars

\* two engines built from the same arguments but for trace, driven through
\* the same steps with the same innovation batches and the same payoffs
InitTrace ==
    /\ \E c \in {x \in Configs : OneMissing(x) /\ x.trace} :
           \E ce \in WithEps(c) :
               /\ mc = NewEngine(ce)
               /\ mc2 = NewEngine([ce EXCEPT !.trace = FALSE])
    /\ lat = LatOff

TwConstruct ==
    /\ mc.pc = "new" /\ mc2.pc = "new"
    /\ mc' = Construct(mc) /\ mc2' = Construct(mc2)
    /\ UNCHANGED lat

TwCall ==
    /\ mc.pc = "idle" /\ mc2.pc = "idle"
    /\ \E side \in {"call", "put"} :
           mc' = Call(mc, side) /\ mc2' = Call(mc2, side)
    /\ UNCHANGED lat

TwDraw ==
    /\ mc.pc = "sample" /\ mc2.pc = "sample"
    /\ \E fresh \in Batches(mc.inn.mc_paths, mc.inn.path_length) :
           mc' = Draw(mc, fresh) /\ mc2' = Draw(mc2, fresh)
    /\ UNCHANGED lat

TwBuildPath ==
    /\ mc.pc = "path" /\ mc2.pc = "path"
    /\ mc' = BuildPath(mc) /\ mc2' = BuildPath(mc2)
    /\ UNCHANGED lat

TwPayoff ==
    /\ mc.pc = "payoff" /\ mc2.pc = "payoff"
    /\ \E vec \in PayoffVecs(Rows(mc)) :
           mc' = Payoff(mc, vec) /\ mc2' = Payoff(mc2, vec)
    /\ UNCHANGED lat

TwFinish ==
    /\ mc.pc = "finish" /\ mc2.pc = "finish"
    /\ mc' = Finish(mc) /\ mc2' = Finish(mc2)
    /\ UNCHANGED lat

NextTrace ==
    TwConstruct \/ TwCall \/ TwDraw \/ TwBuildPath \/ TwPayoff \/ TwFinish

SpecTrace == InitTrace /\ [][NextTrace]_vars

----------------------------------------------------------------------------
(* Properties of the lattice engine                                        *)

\* the inputs are well posed: n >= 1 and the risk-neutral probability is a
\* number in [0, 1] (which needs u /= d, that is sigma > 0)
ValidLattice(l) ==
    /\ l.n >= 1
    /\ IsFin(CalcP(l.u, l.g))
    /\ QLe(Zero, CalcP(l.u, l.g))
    /\ QLe(CalcP(l.u, l.g), One)

\* C4: for valid inputs the American price is at least the European price
\* of the same inputs, for calls and puts: whichever style a finished run
\* priced, its result is on the right side of the other style's price.
C4_AmericanAtLeastEuropean ==
    (lat.pc = "done" /\ ValidLattice(lat)) =>
        /\ lat.type = "american" => QLe(PriceOf(lat, "european"), lat.ret)
        /\ lat.type = "european" => QLe(lat.ret, PriceOf(lat, "american"))

\* an American run that ends with a strict early-exercise premium
C4_Witness ==
    /\ lat.pc = "done"
    /\ ValidLattice(lat)
    /\ lat.type = "american"
    /\ lat.n >= 2
    /\ QLt(PriceOf(lat, "european"), lat.ret)

\* C5 as claimed: with sigma = 0 (u = 1) the probability p is a number (no
\* division by zero) and the European price is
\* exp(-r t) * max(z * (S * exp(b t) - K), 0), with exp(-r t) = Df ** n and
\* exp(b t) = g ** n.
C5_SigmaZeroForwardIntrinsic ==
    (lat.pc = "done" /\ lat.u = One /\ lat.type = "european") =>
        /\ IsFin(lat.p)
        /\ QEq(lat.ret,
               QMul(QPow(lat.Df, lat.n),
                    PyMax(Zero,
                          QMul(Fin(lat.z, 1),
                               QSub(QMul(Fin(lat.S, 1), QPow(lat.g, lat.n)),
                                    Fin(lat.K, 1))))))

\* the step whose node entry x holds: the current step for the entries
\* already updated in it, the step before for the other entries up to j + 1,
\* and step x for the entries the induction has left behind
HeldStep(l, x) ==
    IF x \in l.upd THEN l.j ELSE IF x <= l.j + 1 THEN l.j + 1 ELSE x

InInduction(l) == l.pc \in {"loop", "return", "done"}

\* every entry of the American array is at least its node's exercise value
\* (below step n) and is the terminal payoff max(., 0) at step n
AboveExercise(l) ==
    \A x \in 0 .. l.n :
        IF HeldStep(l, x) < l.n
        THEN QLe(Exercise(l.S, l.K, l.u, l.d, l.z, HeldStep(l, x), x), l.OV[x])
        ELSE l.OV[x] = PyMax(Zero, Exercise(l.S, l.K, l.u, l.d, l.z, l.n, x))

NonNegative(l) == \A x \in 0 .. l.n : QLe(Zero, l.OV[x])

TerminalNonNegative(l) ==
    \A x \in 0 .. l.n : HeldStep(l, x) = l.n => QLe(Zero, l.OV[x])

\* C9 as claimed, on the inputs with sigma > 0 (u > 1, so that p is a
\* number): during American backward induction every node value is at least
\* its exercise value and non-negative.
C9_NodeAboveExerciseAndNonNegative ==
    (InInduction(lat) /\ lat.type = "american" /\ QLt(One, lat.u)) =>
        AboveExercise(lat) /\ NonNegative(lat)

\* C9 amended: every node value is at least its exercise value and the
\* terminal values are max(., 0) >= 0; the node values below step n are
\* non-negative when the risk-neutral probability p lies in [0, 1].
C9_NodeAboveExercise ==
    (InInduction(lat) /\ lat.type = "american") =>
        /\ AboveExercise(lat)
        /\ TerminalNonNegative(lat)
        /\ ValidLattice(lat) => NonNegative(lat)

\* an American node below step n whose exercise value exceeds its
\* continuation value, with p in [0, 1]
C9_Witness ==
    /\ lat.pc = "loop"
    /\ lat.type = "american"
    /\ ValidLattice(lat)
    /\ \E x \in lat.upd :
           /\ lat.OV[x] = Exercise(lat.S, lat.K, lat.u, lat.d, lat.z, lat.j, x)
           /\ QLt(Zero, lat.OV[x])
           /\ QLt(Continuation(lat.start, x, lat.p, lat.Df), lat.OV[x])

\* what the code's ascending inner loop makes of the array step j began with
Ascending(l) == InnerFrom(l, l.start, 0, l.j)

\* C8 as claimed: in whatever order the nodes of a step are updated, the
\* updated nodes hold the values the ascending order gives them, and the
\* final price is the price of the ascending order.
C8_AnyOrderSameValues ==
    /\ lat.pc = "loop" => \A x \in lat.upd : lat.OV[x] = Ascending(lat)[x]
    /\ lat.pc = "done" => lat.ret = PriceOf(lat, lat.type)

\* C8 amended: in any order an update of node i writes entry i alone (the
\* entries not yet updated in the step keep the value the step began with),
\* and as long as every node was updated before its right neighbour, which
\* is the ascending order, the updated nodes hold the ascending values and
\* the price is the ascending price; other orders are not covered.
C8_AscendingOrderOnly ==
    /\ lat.pc = "loop" =>
          /\ \A x \in (0 .. lat.n) \ lat.upd : lat.OV[x] = lat.start[x]
          /\ lat.ordered => \A x \in lat.upd : lat.OV[x] = Ascending(lat)[x]
    /\ (lat.pc = "done" /\ lat.ordered) => lat.ret = PriceOf(lat, lat.type)

\* a step in which a node was updated after its right neighbour and got a
\* value the ascending order does not give it
C8_Witness ==
    /\ lat.pc = "loop"
    /\ ~lat.ordered
    /\ \E x \in lat.upd : lat.OV[x] /= Ascending(lat)[x]
    /\ \A x \in (0 .. lat.n) \ lat.upd : lat.OV[x] = lat.start[x]

----------------------------------------------------------------------------
(* Properties of the Monte Carlo engine                                    *)

\* the configurations the data model allows
ValidConfig(c) ==
    /\ c.mc_loops >= 1 /\ c.mc_paths >= 1 /\ c.path_length >= 1
    /\ c.Innovation /\ c.Path /\ c.Payoff

IsPayoffCall(e) == e.op \in {"call", "put"}

\* the payoff vector the evaluator returned in loop k
PayoffOfLoop(m, k) ==
    m.calls[CHOOSE x \in 1 .. Len(m.calls) :
                IsPayoffCall(m.calls[x]) /\ m.calls[x].i = k].vec

Terminated(m) == m.pc \in {"done", "diverged"}

\* C1 as claimed, for valid configurations: once the evaluator has returned
\* a payoff vector whose mean is not finite (+inf, -inf or nan), the run has
\* ended at that loop: that call is the last one, a warning was signalled
\* and the result is the bundle (batch, path, payoff) of the loop.
C1_NonFiniteMeanAborts ==
    ValidConfig(mc.cfg) =>
        \A x \in 1 .. Len(mc.calls) :
            (IsPayoffCall(mc.calls[x]) /\ ~IsFin(Mean(mc.calls[x].vec))) =>
                /\ x = Len(mc.calls)
                /\ mc.pc = "diverged"
                /\ mc.warns = <<mc.calls[x].i>>
                /\ mc.ret.kind = "bundle"
                /\ mc.ret.payoff = mc.calls[x].vec

\* C2: in a run of a valid configuration the estimates stored so far are,
\* index by index, the means of the payoff vectors that call() (resp. put())
\* returned in the loops, the entries of the loops not yet run hold their
\* initial 0, and a run that completes returns this array, of mc_loops
\* entries.
C2_LoopResultIsMeans ==
    (ValidConfig(mc.cfg) /\ mc.pc \in {"sample", "path", "payoff", "finish", "done"}) =>
        /\ Len(mc.iteration) = mc.cfg.mc_loops
        /\ \A x \in 1 .. mc.cfg.mc_loops :
               IF x <= mc.i
               THEN /\ mc.iteration[x] = Mean(PayoffOfLoop(mc, x - 1))
                    /\ \E y \in 1 .. Len(mc.calls) :
                           mc.calls[y] = [op |-> mc.side, i |-> x - 1,
                                          vec |-> PayoffOfLoop(mc, x - 1)]
               ELSE mc.iteration[x] = Zero
        /\ mc.pc \in {"finish", "done"} => mc.i = mc.cfg.mc_loops
        /\ mc.pc = "done" =>
               mc.ret.kind = "array" /\ mc.ret.arr = mc.iteration

\* a completed run of two loops or more with two different estimates
C2_Witness ==
    /\ ValidConfig(mc.cfg)
    /\ mc.pc = "done"
    /\ mc.cfg.mc_loops >= 2
    /\ IsFin(mc.ret.arr[1]) /\ IsFin(mc.ret.arr[2])
    /\ QLt(Zero, mc.ret.arr[1])
    /\ QLt(mc.ret.arr[1], mc.ret.arr[2])

\* C3 as claimed, less the kind of the error and the moment of the
\* rejection: an engine built from an invalid configuration never draws an
\* innovation, builds a path or evaluates a payoff, and returns nothing.
C3_InvalidConfigNoComputation ==
    ~ValidConfig(mc.cfg) =>
        /\ mc.calls = <<>>
        /\ mc.ret.kind = "none"

C7_TraceIsObservabilityOnly ==
    /\ mc.pc = mc2.pc
    /\ mc.i = mc2.i
    /\ mc.calls = mc2.calls
    /\ mc.eps = mc2.eps
    /\ mc.path = mc2.path
    /\ mc.payoff = mc2.payoff
    /\ mc.iteration = mc2.iteration
    /\ mc.warns = mc2.warns
    /\ mc.err = mc2.err
    /\ mc.ret = mc2.ret

\* both runs completed two loops or more and only one of them printed the
\* per-loop reports
C7_Witness ==
    /\ ValidConfig(mc.cfg)
    /\ mc.pc = "done" /\ mc2.pc = "done"
    /\ mc.cfg.mc_loops >= 2
    /\ Len(mc.out) = Len(mc2.out) + mc.cfg.mc_loops + 1
    /\ mc.ret.arr[1] /= mc.ret.arr[2]

\* the capability calls of a run, in order: loop 0's draw, path and payoff,
\* then loop 1's, ..
CanonicalCalls(m) ==
    \A x \in 1 .. Len(m.calls) :
        /\ m.calls[x].i = (x - 1) \div 3
        /\ m.calls[x].op = <<"sample", "path", m.side>>[((x - 1) % 3) + 1]

\* where a run stands against the calls it has made
InStep(m) ==
    /\ m.pc = "new" \/ m.pc = "idle" => m.calls = <<>>
    /\ m.pc = "sample" => Len(m.calls) = 3 * m.i /\ m.i < m.cfg.mc_loops
    /\ m.pc = "path" => Len(m.calls) = 3 * m.i + 1 /\ m.i < m.cfg.mc_loops
    /\ m.pc = "payoff" => Len(m.calls) = 3 * m.i + 2 /\ m.i < m.cfg.mc_loops
    /\ m.pc = "diverged" => Len(m.calls) = 3 * (m.i + 1) /\ m.i < m.cfg.mc_loops
    /\ m.pc \in {"finish", "done"} => Len(m.calls) = 3 * m.cfg.mc_loops
    /\ m.pc \notin {"error", "off"}

\* how far a run has come: its place in the control flow plus the calls made
Progress(m) ==
    Len(m.calls) +
        (CASE m.pc = "new" -> 0
           [] m.pc = "idle" -> 1
           [] m.pc \in {"sample", "path", "payoff"} -> 2
           [] m.pc \in {"finish", "diverged"} -> 3
           [] OTHER -> 4)

\* some step of the run is enabled: the guards of the actions of NextMC
CanStep(m) ==
    \/ m.pc \in {"new", "idle", "path", "finish"}
    \/ m.pc = "sample" /\ Batches(m.inn.mc_paths, m.inn.path_length) /= {}
    \/ m.pc = "payoff" /\ PayoffVecs(Rows(m)) /= {}

\* C10: a run of a valid configuration goes Idle, Looping(0), Looping(1), ..
\* and ends Completed or Diverged: its calls are, loop after loop in
\* increasing order, one draw, one path construction and one call()/put();
\* Completed comes after loop mc_loops - 1 only; nothing changes once the
\* run has ended; and every run ends, since a run that has not ended can
\* take a step, every step makes progress and progress is bounded.
C10_RunStateMachine ==
    /\ [](ValidConfig(mc.cfg) =>
            /\ CanonicalCalls(mc)
            /\ InStep(mc)
            /\ Progress(mc) <= 3 * mc.cfg.mc_loops + 4
            /\ Terminated(mc) \/ CanStep(mc))
    /\ [][/\ mc'.i >= mc.i
          /\ Terminated(mc) => mc' = mc
          /\ ValidConfig(mc.cfg) => Progress(mc') > Progress(mc)]_vars

\* a run that diverged in its second loop
C10_Witness ==
    /\ ValidConfig(mc.cfg)
    /\ mc.pc = "diverged"
    /\ mc.i = 1
    /\ Len(mc.calls) = 6

\* the negation of a row of a batch
NegRow(row) == [c \in 1 .. Len(row) |-> QNeg(row[c])]

\* the batch is b stacked on its negation along the paths axis
IsDoubled(e, b) ==
    /\ Len(e) = 2 * Len(b)
    /\ \A r \in 1 .. Len(b) : e[r] = b[r] /\ e[Len(b) + r] = NegRow(b[r])

\* a path generator has been built in the current loop
PathBuilt(m) == m.pc \in {"payoff", "diverged"} /\ m.path.made

\* C11: with antithetic on, in every loop the batch handed to the path
\* generator is the batch drawn in that loop stacked on its negation (twice
\* the drawn number of paths), standardized after that when standardization
\* is on; the batch the innovation source holds stays the one it was built
\* with, and every loop draws a batch of mc_paths paths (the override itself
\* when one was supplied).
C11_AntitheticLoopLocal ==
    mc.pc # "off" /\ mc.cfg.antithetic =>
        /\ mc.inn.made => mc.inn.eps = mc.cfg.eps
        /\ PathBuilt(mc) =>
              /\ Len(mc.drawn) = mc.cfg.mc_paths
              /\ mc.cfg.eps.some => mc.drawn = mc.cfg.eps.val
              /\ Len(mc.path.epsilon) = 2 * mc.cfg.mc_paths
              /\ \E e \in {Antithetic(mc.drawn)} :
                    /\ IsDoubled(e, mc.drawn)
                    /\ mc.path.epsilon =
                          IF mc.cfg.standardization THEN Standardize(e) ELSE e

\* C11 witness: the second loop of an antithetic run over a supplied
\* two-path batch has handed four paths to the path generator.
C11_Witness ==
    /\ mc.pc = "payoff"
    /\ mc.cfg.antithetic
    /\ ~mc.cfg.standardization
    /\ mc.cfg.eps.some
    /\ mc.cfg.mc_paths = 2
    /\ mc.i = 1
    /\ Len(mc.path.epsilon) = 4
    /\ mc.path.epsilon[3] = NegRow(mc.drawn[1])

\* the layered recurrence: V_n is the terminal payoff array, and V_j for
\* j < n is a fresh array over 0..j with
\* V_j[i] = discount * (p * V_{j+1}[i+1] + (1 - p) * V_{j+1}[i]),
\* for American the larger of that and the exercise value of node (j, i)
RECURSIVE Layer(_, _)
Layer(l, j) ==
    IF j >= l.n THEN Terminal(l.S, l.K, l.u, l.d, l.n, l.z)
    ELSE LET next == Layer(l, j + 1)
         IN  [x \in 0 .. j |->
                LET c == QMul(l.Df, QAdd(QMul(l.p, next[x + 1]),
                                         QMul(QSub(One, l.p), next[x])))
                IN  IF l.type = "european" THEN c
                    ELSE PyMax(Exercise(l.S, l.K, l.u, l.d, l.z, j, x), c)]

\* C12: for n >= 1 the in-place induction refines the layered recurrence.
\* Within step j the entries rewritten so far are 0..i-1, all within 0..j;
\* each was computed from the array as step j began (its right neighbour
\* was not yet overwritten); every other entry is as step j began; entries
\* 0..i-1 hold V_j, entries i..j+1 hold V_{j+1}, and an entry x > j+1 still
\* holds V_x[x]. After step 0 entry 0 is V_0[0], and that is the price
\* returned.
C12_InPlaceRefinesLayered ==
    /\ lat.pc = "loop" =>
          /\ lat.n >= 1 /\ lat.j \in 0 .. lat.n - 1
          /\ lat.upd = 0 .. lat.i - 1 /\ lat.i <= lat.j
          /\ lat.ordered
          /\ \A x \in lat.upd :
                lat.OV[x] = NodeOf(lat, lat.start, x, lat.j)[x]
          /\ \A x \in (0 .. lat.n) \ lat.upd : lat.OV[x] = lat.start[x]
          /\ \A x \in 0 .. lat.n :
                lat.OV[x] = Layer(lat, HeldStep(lat, x))[x]
    /\ lat.pc \in {"return", "done"} =>
          /\ lat.n >= 1
          /\ \A x \in 0 .. lat.n : lat.OV[x] = Layer(lat, x)[x]
    /\ lat.pc = "done" => lat.ret = Layer(lat, 0)[0]

\* C12 witness: an American run of three steps, in the middle of step 1:
\* entry 0 was rewritten to a new value, entry 1 still holds its step-2
\* value, which the layered recurrence changes in step 1.
C12_Witness ==
    /\ lat.pc = "loop"
    /\ lat.type = "american"
    /\ lat.n = 3
    /\ lat.j = 1
    /\ lat.upd = {0}
    /\ IsFin(lat.p)
    /\ lat.OV[0] /= lat.start[0]
    /\ lat.OV[1] = Layer(lat, 2)[1]
    /\ Layer(lat, 1)[1] /= Layer(lat, 2)[1]

====
